---------------------------- MODULE Spec2Model ----------------------------
(***************************************************************************)
(* owner_tool (src/owner_tool/src/main.rs): the four sub-commands          *)
(* initialize-device, dump-ownership-voucher, dump-device-credential and   *)
(* extend-ownership-voucher, run as invocations against one file system.   *)
(*                                                                         *)
(* A file is a sequence of chunks (the CBOR items serde_cbor writes one    *)
(* after the other); a write that fails or a process that dies leaves a    *)
(* prefix behind.  Digests, HMACs and signatures are symbolic terms.       *)
(* The fdo_data_formats crate (OwnershipVoucher, RendezvousVariable, ...)  *)
(* is modelled from the specification text.                                *)
(***************************************************************************)
EXTENDS Integers, Sequences, FiniteSets, TLC

VARIABLES
    fs,       \* the file system: path -> [exists, data]
    pc,       \* per invocation slot: the position in the sub-command
    loc,      \* per invocation slot: arguments and local variables
    out,      \* per invocation slot: the lines printed to stdout
    result,   \* per invocation slot: the Result main() returned
    fs0,      \* history: the file system when the current invocation began
    origin,   \* history: path -> the initialize-device run whose voucher is there
    nruns     \* history: invocations started so far

vars == <<fs, pc, loc, out, result, fs0, origin, nruns>>

---------------------------------------------------------------------------
(* Bounds of the model *)

MaxRuns == 3

---------------------------------------------------------------------------
(* Input domains *)

Procs == {"p1"}


\* Paths an operator passes on the command line
ArgPaths == {"a", "a.new"}

DeviceIds == {"dev-1", "dev-2"}

\* Outcomes of the secure random source
Guids == {"guid-1", "guid-2"}
HmacKeys == {"hk-1", "hk-2"}
DeviceKeys == {[ec |-> "devkey-1"]}
Serials == {"serial-1"}

\* Operator supplied key and certificate files (their decoded contents)
ManufacturerCert == [subject |-> "manufacturer", pubkey |-> "mfg-pub"]
CaCert == [subject |-> "device-ca", pubkey |-> "ca-pub"]
CaPrivateKey == [priv |-> "ca-key"]
OwnerPrivateKeys == {[priv |-> "mfg-key"]}
NewOwnerCerts == {[subject |-> "owner-1", pubkey |-> "o1-pub"],
                  [subject |-> "owner-2", pubkey |-> "o2-pub"]}
CaChains == {<< >>, <<CaCert>>}

---------------------------------------------------------------------------
(* Symbolic cryptography *)

Hash(alg, data) == [t |-> "hash", alg |-> alg, of |-> data]

EmptyBytes == [empty |-> TRUE]

HmacSign(key, bytes) == [t |-> "hmac-sha384", key |-> key, msg |-> bytes]

HMac_new_from_data(alg, data) == [t |-> "HMac", alg |-> alg, value |-> data]

PublicKey_new(keytype, body) == [keytype |-> keytype, body |-> body]

PublicKeyBody_X509(cert) == [variant |-> "X509", cert |-> cert]

---------------------------------------------------------------------------
(* YAML values (serde_yaml::Value) and CBOR values (serde_cbor::Value) *)

YNull == [y |-> "Null"]
YBool(b) == [y |-> "Bool", b |-> b]
YNumber(repr, n) == [y |-> "Number", repr |-> repr, n |-> n]
YString(s) == [y |-> "String", s |-> s]
YSequence(seq) == [y |-> "Sequence", seq |-> seq]
YMapping(pairs) == [y |-> "Mapping", pairs |-> pairs]

RECURSIVE yaml_to_cbor(_)
yaml_to_cbor(val) ==
    CASE val.y = "Null" -> [c |-> "Null"]
      [] val.y = "Bool" -> [c |-> "Bool", b |-> val.b]
      [] val.y = "Number" ->
            IF val.repr = "u64" THEN [c |-> "Integer", n |-> val.n]
            ELSE IF val.repr = "i64" THEN [c |-> "Integer", n |-> val.n]
            ELSE [c |-> "Float", f |-> val.n]
      [] val.y = "String" -> [c |-> "Text", s |-> val.s]
      [] val.y = "Sequence" ->
            [c |-> "Array",
             arr |-> [i \in 1..Len(val.seq) |-> yaml_to_cbor(val.seq[i])]]
      [] val.y = "Mapping" ->
            [c |-> "Map",
             map |-> {<<yaml_to_cbor(val.pairs[i][1]), yaml_to_cbor(val.pairs[i][2])>> :
                        i \in 1..Len(val.pairs)}]

\* The names RendezvousVariable::from_str accepts
RendezvousVariableNames ==
    {"device-only", "owner-only", "ip-address", "device-port", "owner-port",
     "dns", "protocol", "delay"}

RendezvousVariable_from_str(key) ==
    IF key \in RendezvousVariableNames
    THEN [ok |-> TRUE, variable |-> key]
    ELSE [ok |-> FALSE, variable |-> key]

ValidRvDoc ==
    YSequence(<<YMapping(<<
        <<YString("device-port"), YNumber("u64", 8080)>>,
        <<YString("delay"), YNumber("i64", -1)>>,
        <<YString("ip-address"),
          YSequence(<<YNull, YBool(TRUE), YString("192.0.2.1"),
                      YMapping(<< <<YString("k"), YNumber("f64", 15)>> >>)>>)>> >>)>>)

UnknownKeyRvDoc ==
    YSequence(<<YMapping(<<
        <<YString("device-port"), YNumber("u64", 8080)>>,
        <<YString("bogus"), YNumber("u64", 1)>> >>)>>)

WrongCaseRvDoc ==
    YSequence(<<YMapping(<< <<YString("Device-Port"), YNumber("u64", 8080)>> >>)>>)

TopMappingRvDoc ==
    YMapping(<< <<YString("device-port"), YNumber("u64", 8080)>> >>)

BadEntryThenUnknownKeyRvDoc ==
    YSequence(<<YNumber("u64", 5),
                YMapping(<< <<YString("bogus"), YNumber("u64", 1)>> >>)>>)

NonStringKeyRvDoc ==
    YSequence(<<YMapping(<< <<YNumber("u64", 7), YNumber("u64", 1)>> >>)>>)

RvDocs == {ValidRvDoc, UnknownKeyRvDoc, WrongCaseRvDoc, TopMappingRvDoc,
           BadEntryThenUnknownKeyRvDoc, NonStringKeyRvDoc}

\* Mutant: a key that is no rendezvous variable is passed through
load_rendezvous_pair_lenient(kv) ==
    IF kv[1].y # "String"
    THEN [ok |-> FALSE, cause |-> "Invalid key type", name |-> ""]
    ELSE [ok |-> TRUE, pair |-> <<kv[1].s, yaml_to_cbor(kv[2])>>]

\* One (key, value) of an entry: Ok(pair) or the first error
load_rendezvous_pair(kv) ==
    IF kv[1].y # "String"
    THEN [ok |-> FALSE, cause |-> "Invalid key type", name |-> ""]
    ELSE LET key == RendezvousVariable_from_str(kv[1].s) IN
         IF ~key.ok
         THEN [ok |-> FALSE, cause |-> "Error parsing rendezvous key", name |-> kv[1].s]
         ELSE [ok |-> TRUE, pair |-> <<key.variable, yaml_to_cbor(kv[2])>>]

RECURSIVE load_rendezvous_entry(_, _, _)
load_rendezvous_entry(pairs, i, entry) ==
    IF i > Len(pairs) THEN [ok |-> TRUE, entry |-> entry]
    ELSE LET r == load_rendezvous_pair(pairs[i]) IN
         IF ~r.ok THEN r
         ELSE load_rendezvous_entry(pairs, i + 1, Append(entry, r.pair))

RECURSIVE load_rendezvous_entries(_, _, _)
load_rendezvous_entries(vals, i, info) ==
    IF i > Len(vals) THEN [ok |-> TRUE, info |-> info]
    ELSE IF vals[i].y # "Mapping"
    THEN [ok |-> FALSE, cause |-> "Invalid entry type", name |-> ""]
    ELSE LET e == load_rendezvous_entry(vals[i].pairs, 1, << >>) IN
         IF ~e.ok THEN e
         ELSE load_rendezvous_entries(vals, i + 1, Append(info, e.entry))

load_rendezvous_info(value) ==
    IF value.y # "Sequence"
    THEN [ok |-> FALSE, cause |-> "Invalid yaml top type", name |-> ""]
    ELSE load_rendezvous_entries(value.seq, 1, << >>)

---------------------------------------------------------------------------
(* Artifacts: fdo_data_formats types and their CBOR forms *)

None == [none |-> TRUE]

\* serde_cbor::to_vec(&ov_header): the header as opaque bytes
cbor_header(hdr) == [enc |-> "cbor", hdr |-> hdr]

\* X5Chain::new(certs).to_vec()
x5chain_to_vec(certs) == [enc |-> "cbor", x5chain |-> certs]

OwnershipVoucherHeader_new(protver, guid, rvinfo, devinfo, pubkey, chainhash) ==
    [protocol_version |-> protver,
     guid |-> guid,
     rendezvous_info |-> rvinfo,
     device_info |-> devinfo,
     public_key |-> pubkey,
     device_certificate_chain_hash |-> chainhash]

OwnershipVoucher_new(header, hmac, chain) ==
    [header |-> header,
     header_hmac |-> hmac,
     device_certificate_chain |-> chain,
     entries |-> << >>]

\* An entry is kept in the voucher as its encoded bytes
encode_entry(entry) == [enc |-> "cbor", entry |-> entry]

JunkEntry == [enc |-> "junk", bytes |-> "ff"]

decode_entry(raw) ==
    IF raw.enc = "cbor" THEN [ok |-> TRUE, entry |-> raw.entry] ELSE [ok |-> FALSE]

\* OwnershipVoucher::get_header
get_header(ov) == ov.header.hdr

\* Mutant: every entry chains to the header, never to the last entry
previous_hash_of_header(ov) ==
    Hash("sha384", [header |-> ov.header, hmac |-> ov.header_hmac])

\* The hash a new entry chains to: the last entry, or header and HMAC
previous_hash(ov) ==
    IF Len(ov.entries) > 0
    THEN Hash("sha384", [entrybytes |-> ov.entries[Len(ov.entries)]])
    ELSE Hash("sha384", [header |-> ov.header, hmac |-> ov.header_hmac])

header_info_hash(ov) == Hash("sha384", [headerbytes |-> ov.header])

Sign(privkey, payload) == [signer |-> privkey.priv, payload |-> payload]

\* OwnershipVoucher::extend(private_key, hash_type, next_party)
OwnershipVoucher_extend(ov, privkey, next_party) ==
    LET payload == [hash_previous_entry |-> previous_hash(ov),
                    hash_header_info |-> header_info_hash(ov),
                    public_key |-> next_party]
        entry == [hash_previous_entry |-> payload.hash_previous_entry,
                  hash_header_info |-> payload.hash_header_info,
                  public_key |-> payload.public_key,
                  signature |-> Sign(privkey, payload)]
    IN [ov EXCEPT !.entries = Append(@, encode_entry(entry))]

\* serde_cbor::to_writer(file, &ov): the items written, in order
ser_voucher(ov) ==
    << [t |-> "ov.header", header |-> ov.header, hmac |-> ov.header_hmac],
       [t |-> "ov.chain", chain |-> ov.device_certificate_chain,
        nentries |-> Len(ov.entries)] >>
    \o [i \in 1..Len(ov.entries) |-> [t |-> "ov.entry", raw |-> ov.entries[i]]]

is_voucher_data(data) ==
    /\ Len(data) >= 2
    /\ data[1].t = "ov.header"
    /\ data[2].t = "ov.chain"
    /\ Len(data) = 2 + data[2].nentries
    /\ \A i \in 3..Len(data) : data[i].t = "ov.entry"

\* serde_cbor::from_reader::<OwnershipVoucher>
de_voucher(data) ==
    IF is_voucher_data(data)
    THEN [ok |-> TRUE,
          ov |-> [header |-> data[1].header,
                  header_hmac |-> data[1].hmac,
                  device_certificate_chain |-> data[2].chain,
                  entries |-> [i \in 1..(Len(data) - 2) |-> data[2 + i].raw]]]
    ELSE [ok |-> FALSE]

\* serde_cbor::to_writer(file, &devcred)
ser_devcred(dc) ==
    << [t |-> "dc", active |-> dc.active, protver |-> dc.protver,
        hmac_secret |-> dc.hmac_secret, device_info |-> dc.device_info,
        guid |-> dc.guid, rvinfo |-> dc.rvinfo,
        pubkey_hash |-> dc.pubkey_hash, private_key |-> dc.private_key] >>

is_devcred_data(data) ==
    /\ Len(data) = 1
    /\ data[1].t = "dc"

\* serde_cbor::from_reader::<DeviceCredential>
de_devcred(data) ==
    IF is_devcred_data(data)
    THEN [ok |-> TRUE,
          dc |-> [active |-> data[1].active, protver |-> data[1].protver,
                  hmac_secret |-> data[1].hmac_secret,
                  device_info |-> data[1].device_info,
                  guid |-> data[1].guid, rvinfo |-> data[1].rvinfo,
                  pubkey_hash |-> data[1].pubkey_hash,
                  private_key |-> data[1].private_key]]
    ELSE [ok |-> FALSE]

---------------------------------------------------------------------------
(* The file system *)

Paths == ArgPaths \cup {p \o ".new" : p \in ArgPaths}

NoFile == [exists |-> FALSE, data |-> << >>]

EmptyFile == [exists |-> TRUE, data |-> << >>]

ZeroChunk == [t |-> "zero"]

\* write(2) of the i-th item at the handle's offset: a hole left by a
\* truncation through another handle reads as zeros
write_at(file, i, chunk) ==
    LET n == IF Len(file.data) > i THEN Len(file.data) ELSE i IN
    [exists |-> TRUE,
     data |-> [k \in 1..n |-> IF k = i THEN chunk
                              ELSE IF k <= Len(file.data) THEN file.data[k]
                              ELSE ZeroChunk]]

\* Mutant: the output paths are not looked at
path_exists_unchecked(path) == FALSE

\* Path::exists
path_exists(path) == fs[path].exists

\* fs::File::create: creates, or truncates what is there
file_create(path) == [fs EXCEPT ![path] = EmptyFile]

\* fs::rename(from, to)
fs_rename(from, to) == [fs EXCEPT ![to] = fs[from], ![from] = NoFile]

\* An open File follows its file, not the name: fd is the path the file is
\* at now, "" when no file is open or the open file has no name any more
NoFd == ""

\* write(2) through the handle fd of the i-th item
write_fd(fd, i, chunk) ==
    IF fd = NoFd THEN fs ELSE [fs EXCEPT ![fd] = write_at(@, i, chunk)]

\* Where a handle points after some process did fs::rename(from, to): the
\* file that was at `from` is at `to`, the one that was at `to` is unlinked
fd_after_rename(fd, from, to) ==
    IF fd = from THEN to ELSE IF fd = to THEN NoFd ELSE fd

---------------------------------------------------------------------------
(* Invocations *)

NoLocals ==
    [cmd |-> "none", device_id |-> "", path |-> "", dc_path |-> "",
     rv_doc |-> None, chain |-> None, rendezvous_info |-> None,
     device_key |-> None, device_cert |-> None, hmac_key |-> None,
     devcred |-> None, ov |-> None, wr |-> 0,
     key |-> None, cert |-> None, dc |-> None, pos |-> 0,
     fd |-> ""]

NoResult == [status |-> "none", ctx |-> "", cause |-> "", pos |-> -1]

Ok == [status |-> "ok", ctx |-> "", cause |-> "", pos |-> -1]

Err(ctx, cause) == [status |-> "err", ctx |-> ctx, cause |-> cause, pos |-> -1]

Crashed == [status |-> "crashed", ctx |-> "", cause |-> "", pos |-> -1]

\* main() returns: the invocation is over
Return(p, r) ==
    /\ pc' = [pc EXCEPT ![p] = "idle"]
    /\ result' = [result EXCEPT ![p] = r]

Goto(p, label) ==
    /\ pc' = [pc EXCEPT ![p] = label]
    /\ UNCHANGED result

\* A voucher made elsewhere, found on disk: its entries need not decode
ForeignHeader ==
    cbor_header(OwnershipVoucherHeader_new(100, "guid-f", << >>, "dev-f",
        PublicKey_new("SECP256R1", PublicKeyBody_X509(ManufacturerCert)),
        [some |-> FALSE]))

ForeignVoucher0 ==
    OwnershipVoucher_new(ForeignHeader,
        HMac_new_from_data("sha384", HmacSign("hk-f", ForeignHeader)),
        [some |-> FALSE])

ForeignVouchers ==
    LET one == OwnershipVoucher_extend(ForeignVoucher0, [priv |-> "mfg-key"],
                   PublicKey_new("SECP256R1", PublicKeyBody_X509(CaCert)))
        junk1 == [ForeignVoucher0 EXCEPT !.entries = <<JunkEntry>>]
    IN { [one EXCEPT !.entries = Append(@, JunkEntry)],
         OwnershipVoucher_extend(junk1, [priv |-> "mfg-key"],
             PublicKey_new("SECP256R1", PublicKeyBody_X509(CaCert))) }

ForeignPath == "a"

Init ==
    /\ \E f \in {NoFile} \cup
                {[exists |-> TRUE, data |-> ser_voucher(v)] : v \in ForeignVouchers} :
          fs = [path \in Paths |-> IF path = ForeignPath THEN f ELSE NoFile]
    /\ pc = [p \in Procs |-> "idle"]
    /\ loc = [p \in Procs |-> NoLocals]
    /\ out = [p \in Procs |-> << >>]
    /\ result = [p \in Procs |-> NoResult]
    /\ fs0 = fs
    /\ origin = [path \in Paths |-> None]
    /\ nruns = 0

\* The shell starts owner_tool with the given sub-command and arguments
Start(p, locals) ==
    /\ pc[p] = "idle"
    /\ nruns < MaxRuns
    /\ nruns' = nruns + 1
    /\ loc' = [loc EXCEPT ![p] = locals]
    /\ out' = [out EXCEPT ![p] = << >>]
    /\ result' = [result EXCEPT ![p] = NoResult]
    /\ fs0' = fs
    /\ UNCHANGED <<fs, origin>>

---------------------------------------------------------------------------
(* initialize-device *)

StartInitializeDevice(p) ==
    \E id \in DeviceIds, ov_out \in ArgPaths, dc_out \in ArgPaths :
        /\ Start(p, [NoLocals EXCEPT !.cmd = "initialize-device",
                        !.device_id = id, !.path = ov_out, !.dc_path = dc_out])
        /\ pc' = [pc EXCEPT ![p] = "init_load"]

InitLoadErrors ==
    {"Error loading manufacturer cert",
     "Error creating manufacturer public key representation",
     "Error loading device CA private key",
     "Error loading device cert ca chain"}

\* Lines 295-320: the certificate, key, chain and rendezvous files are read
InitLoadInputs(p) ==
    /\ pc[p] = "init_load"
    /\ UNCHANGED <<fs, out, fs0, origin, nruns>>
    /\ \/ \E e \in InitLoadErrors :
             /\ Return(p, Err(e, "unreadable"))
             /\ UNCHANGED loc
       \/ \E chain \in CaChains :
             \/ /\ Return(p, Err("Error loading rendezvous info",
                                 "Error parsing rendezvous info"))
                /\ UNCHANGED loc
             \/ \E doc \in RvDocs :
                  LET r == load_rendezvous_info(doc) IN
                  IF r.ok
                  THEN /\ Goto(p, "init_exists")
                       /\ loc' = [loc EXCEPT ![p].chain = [certs |-> chain],
                                             ![p].rv_doc = doc,
                                             ![p].rendezvous_info = [info |-> r.info]]
                  ELSE /\ Return(p, Err("Error loading rendezvous info", r.cause))
                       /\ loc' = [loc EXCEPT ![p].rv_doc = doc]

\* Lines 322-333: neither output path may exist
InitCheckExists(p) ==
    /\ pc[p] = "init_exists"
    /\ UNCHANGED <<fs, loc, out, fs0, origin, nruns>>
    /\ IF path_exists(loc[p].dc_path)
       THEN Return(p, Err("Device credential file already exists", ""))
       ELSE IF path_exists(loc[p].path)
       THEN Return(p, Err("Ownership voucher file already exists", ""))
       ELSE Goto(p, "init_build")

\* Lines 219-283
build_device_cert(subject_name, device_pubkey, signer, chain, serial) ==
    IF Len(chain) = 0
    THEN [ok |-> FALSE, cause |-> "Insufficient device CA certs in the chain"]
    ELSE [ok |-> TRUE,
          cert |-> [subject |-> subject_name,
                    pubkey |-> device_pubkey,
                    issuer |-> chain[1].subject,
                    not_before_days |-> 0,
                    not_after_days |-> 3650,
                    version |-> 2,
                    serial |-> serial,
                    signed_by |-> signer.priv,
                    digest |-> "sha384"]]

\* Mutant: the credential keeps the key buffer as it was before rand_bytes
build_devcred_zero_secret(device_id, hmac_key_buf, device_guid, rendezvous_info, device_key) ==
    [active |-> TRUE,
     protver |-> 100,
     hmac_secret |-> "hk-zero",
     device_info |-> device_id,
     guid |-> device_guid,
     rvinfo |-> rendezvous_info,
     pubkey_hash |-> Hash("none", EmptyBytes),
     private_key |-> [der |-> device_key.ec]]

\* Lines 375-386
build_devcred(device_id, hmac_key_buf, device_guid, rendezvous_info, device_key) ==
    [active |-> TRUE,
     protver |-> 100,
     hmac_secret |-> hmac_key_buf,
     device_info |-> device_id,
     guid |-> device_guid,
     rvinfo |-> rendezvous_info,
     pubkey_hash |-> Hash("none", EmptyBytes),
     private_key |-> [der |-> device_key.ec]]

\* Mutant: the header gets a GUID of its own (a second Guid::new())
build_voucher_own_guid(device_id, hmac_key_buf, device_guid, rendezvous_info, device_cert, ca_chain) ==
    LET device_cert_chain == x5chain_to_vec(<<device_cert>> \o ca_chain)
        ov_header == cbor_header(OwnershipVoucherHeader_new(100, "guid-second",
                         rendezvous_info, device_id,
                         PublicKey_new("SECP256R1", PublicKeyBody_X509(ManufacturerCert)),
                         [some |-> TRUE, hash |-> Hash("sha384", device_cert_chain)]))
    IN OwnershipVoucher_new(ov_header,
           HMac_new_from_data("sha384", HmacSign(hmac_key_buf, ov_header)),
           [some |-> TRUE, chain |-> device_cert_chain])

\* Lines 355-363 and 388-409
build_voucher(device_id, hmac_key_buf, device_guid, rendezvous_info, device_cert, ca_chain) ==
    LET device_cert_chain == x5chain_to_vec(<<device_cert>> \o ca_chain)
        device_cert_chain_hash == Hash("sha384", device_cert_chain)
        manufacturer_pubkey ==
            PublicKey_new("SECP256R1", PublicKeyBody_X509(ManufacturerCert))
        ov_header == cbor_header(OwnershipVoucherHeader_new(100, device_guid,
                         rendezvous_info, device_id, manufacturer_pubkey,
                         [some |-> TRUE, hash |-> device_cert_chain_hash]))
        ov_hmac == HMac_new_from_data("sha384", HmacSign(hmac_key_buf, ov_header))
    IN OwnershipVoucher_new(ov_header, ov_hmac,
                            [some |-> TRUE, chain |-> device_cert_chain])

\* Lines 335-409: device key, certificate, HMAC key, GUID, credential, voucher
InitBuild(p) ==
    /\ pc[p] = "init_build"
    /\ UNCHANGED <<fs, out, fs0, origin, nruns>>
    /\ \/ /\ Return(p, Err("Error generating device key", "openssl"))
          /\ UNCHANGED loc
       \/ \E dk \in DeviceKeys, serial \in Serials :
            LET c == build_device_cert(loc[p].device_id, dk, CaPrivateKey,
                                       loc[p].chain.certs, serial) IN
            IF ~c.ok
            THEN /\ Return(p, Err("Error building device certificate", c.cause))
                 /\ loc' = [loc EXCEPT ![p].device_key = dk]
            ELSE \/ /\ Return(p, Err("Error creating random device HMAC key", "openssl"))
                    /\ loc' = [loc EXCEPT ![p].device_key = dk,
                                          ![p].device_cert = c.cert]
                 \/ \E hk \in HmacKeys, g \in Guids :
                      /\ Goto(p, "init_create_ov")
                      /\ loc' = [loc EXCEPT
                            ![p].device_key = dk,
                            ![p].device_cert = c.cert,
                            ![p].hmac_key = [buf |-> hk],
                            ![p].devcred = build_devcred(loc[p].device_id, hk, g,
                                               loc[p].rendezvous_info.info, dk),
                            ![p].ov = build_voucher(loc[p].device_id, hk, g,
                                          loc[p].rendezvous_info.info, c.cert,
                                          loc[p].chain.certs)]

\* Mutant: a failing late step removes the output files created so far
fs_after_error_rollback(created) ==
    [path \in Paths |-> IF path \in created THEN NoFile ELSE fs[path]]

\* Lines 413-418: `?` returns the error and the File handles are dropped,
\* which closes them; nothing removes the files created so far
fs_after_error(created) == fs

\* Lines 412-413
InitCreateVoucherFile(p) ==
    /\ pc[p] = "init_create_ov"
    /\ UNCHANGED <<loc, out, fs0, nruns>>
    /\ \/ /\ Return(p, Err("Error creating ownership voucher", "io"))
          /\ UNCHANGED <<fs, origin>>
       \/ /\ Goto(p, "init_create_dc")
          /\ fs' = file_create(loc[p].path)
          /\ origin' = [origin EXCEPT ![loc[p].path] = None]

\* Lines 414-415
InitCreateCredentialFile(p) ==
    /\ pc[p] = "init_create_dc"
    /\ UNCHANGED <<out, fs0, nruns>>
    /\ \/ /\ Return(p, Err("Error creating device credential file", "io"))
          /\ fs' = fs_after_error({loc[p].path})
          /\ UNCHANGED <<loc, origin>>
       \/ /\ Goto(p, "init_write_ov")
          /\ fs' = file_create(loc[p].dc_path)
          /\ loc' = [loc EXCEPT ![p].wr = 1]
          /\ origin' = [origin EXCEPT ![loc[p].dc_path] = None]

\* Line 417: serde_cbor::to_writer(ov_out, &ov), one item per step
InitWriteVoucher(p) ==
    /\ pc[p] = "init_write_ov"
    /\ UNCHANGED <<out, fs0, nruns>>
    /\ \/ /\ Return(p, Err("Error writing ownership voucher", "io"))
          /\ fs' = fs_after_error({loc[p].path, loc[p].dc_path})
          /\ UNCHANGED <<loc, origin>>
       \/ LET data == ser_voucher(loc[p].ov)
              i == loc[p].wr IN
          /\ fs' = [fs EXCEPT ![loc[p].path] = write_at(@, i, data[i])]
          /\ IF i < Len(data)
             THEN /\ Goto(p, "init_write_ov")
                  /\ loc' = [loc EXCEPT ![p].wr = i + 1]
                  /\ UNCHANGED origin
             ELSE /\ Goto(p, "init_write_dc")
                  /\ loc' = [loc EXCEPT ![p].wr = 1]
                  /\ origin' = [origin EXCEPT ![loc[p].path] =
                                   [ov |-> loc[p].ov, devcred |-> loc[p].devcred,
                                    succeeded |-> FALSE]]

\* Lines 418-420: serde_cbor::to_writer(devcred_out, &devcred), then Ok(())
InitWriteCredential(p) ==
    /\ pc[p] = "init_write_dc"
    /\ UNCHANGED <<out, fs0, nruns>>
    /\ \/ /\ Return(p, Err("Error writing device credential", "io"))
          /\ fs' = fs_after_error({loc[p].path, loc[p].dc_path})
          /\ UNCHANGED <<loc, origin>>
       \/ LET data == ser_devcred(loc[p].devcred)
              i == loc[p].wr IN
          /\ fs' = [fs EXCEPT ![loc[p].dc_path] = write_at(@, i, data[i])]
          /\ IF i < Len(data)
             THEN /\ Goto(p, "init_write_dc")
                  /\ loc' = [loc EXCEPT ![p].wr = i + 1]
                  /\ UNCHANGED origin
             ELSE /\ Return(p, Ok)
                  /\ loc' = [loc EXCEPT ![p].wr = 0]
                  /\ origin' = [path \in Paths |->
                                   IF path = loc[p].path /\ origin[path] # None
                                   THEN [origin[path] EXCEPT !.succeeded = TRUE]
                                   ELSE origin[path]]

initialize_device(p) ==
    \/ InitLoadInputs(p)
    \/ InitCheckExists(p)
    \/ InitBuild(p)
    \/ InitCreateVoucherFile(p)
    \/ InitCreateCredentialFile(p)
    \/ InitWriteVoucher(p)
    \/ InitWriteCredential(p)

---------------------------------------------------------------------------
(* extend-ownership-voucher *)

StartExtendVoucher(p) ==
    \E path \in ArgPaths :
        /\ Start(p, [NoLocals EXCEPT !.cmd = "extend-ownership-voucher",
                                     !.path = path])
        /\ pc' = [pc EXCEPT ![p] = "ext_load"]

\* Lines 498-506: open the voucher and decode it
ExtendLoadVoucher(p) ==
    /\ pc[p] = "ext_load"
    /\ UNCHANGED <<fs, out, fs0, origin, nruns>>
    /\ LET file == fs[loc[p].path]
           r == de_voucher(file.data) IN
       IF ~file.exists
       THEN /\ Return(p, Err("Error opening ownership voucher", "not found"))
            /\ UNCHANGED loc
       ELSE \/ /\ Return(p, Err("Error opening ownership voucher", "io"))
               /\ UNCHANGED loc
            \/ IF r.ok
               THEN /\ Goto(p, "ext_extend")
                    /\ loc' = [loc EXCEPT ![p].ov = r.ov]
               ELSE /\ Return(p, Err("Error loading ownership voucher", "cbor"))
                    /\ UNCHANGED loc

ExtendLoadErrors ==
    {"Error loading current owner private key",
     "Error loading new owner certificate",
     "Error creating new public key"}

\* Mutant: the voucher is rebuilt from header, HMAC and chain before the
\* extend, which drops the entries it had
extended_voucher_rebuilt(ov, key, cert) ==
    OwnershipVoucher_extend(
        OwnershipVoucher_new(ov.header, ov.header_hmac, ov.device_certificate_chain),
        key, PublicKey_new("SECP256R1", PublicKeyBody_X509(cert)))

\* Mutant: the header is decoded and encoded again before the extend
extended_voucher_reencoded(ov, key, cert) ==
    OwnershipVoucher_extend(
        [ov EXCEPT !.header = [enc |-> "cbor-reencoded", hdr |-> get_header(ov)]],
        key, PublicKey_new("SECP256R1", PublicKeyBody_X509(cert)))

\* Lines 522-527: the new owner's public key, and ov.extend
extended_voucher(ov, key, cert) ==
    LET new_owner_cert == PublicKeyBody_X509(cert)
        new_owner_pubkey == PublicKey_new("SECP256R1", new_owner_cert)
    IN OwnershipVoucher_extend(ov, key, new_owner_pubkey)

\* Lines 508-527: load the key and the certificate, extend the voucher
ExtendAppend(p) ==
    /\ pc[p] = "ext_extend"
    /\ UNCHANGED <<fs, out, fs0, origin, nruns>>
    /\ \/ \E e \in ExtendLoadErrors :
             /\ Return(p, Err(e, "unreadable"))
             /\ UNCHANGED loc
       \/ \E key \in OwnerPrivateKeys, cert \in NewOwnerCerts :
            \/ /\ Return(p, Err("Error extending ownership voucher", "sign"))
               /\ loc' = [loc EXCEPT ![p].key = key, ![p].cert = cert]
            \/ /\ Goto(p, "ext_create")
               /\ loc' = [loc EXCEPT
                     ![p].key = key, ![p].cert = cert,
                     ![p].ov = extended_voucher(@, key, cert)]

\* Mutant: the new voucher is written in place, over the original
newname_in_place(path) == path

\* Line 530
newname(path) == path \o ".new"

\* Lines 533-534
ExtendCreateNew(p) ==
    /\ pc[p] = "ext_create"
    /\ UNCHANGED <<out, fs0, nruns>>
    /\ \/ /\ Return(p, Err("Error opening new ownership voucher file", "io"))
          /\ UNCHANGED <<fs, loc, origin>>
       \/ /\ Goto(p, "ext_write")
          /\ fs' = file_create(newname(loc[p].path))
          /\ loc' = [loc EXCEPT ![p].wr = 1, ![p].fd = newname(loc[p].path)]
          /\ origin' = [origin EXCEPT ![newname(loc[p].path)] = None]

\* Line 535: serde_cbor::to_writer(ov_out, &ov), one item per step
ExtendWriteNew(p) ==
    /\ pc[p] = "ext_write"
    /\ UNCHANGED <<out, fs0, origin, nruns>>
    /\ \/ /\ Return(p, Err("Error writing new ownership voucher", "io"))
          /\ UNCHANGED <<fs, loc>>
       \/ LET data == ser_voucher(loc[p].ov)
              i == loc[p].wr IN
          /\ fs' = write_fd(loc[p].fd, i, data[i])
          /\ IF i < Len(data)
             THEN /\ Goto(p, "ext_write")
                  /\ loc' = [loc EXCEPT ![p].wr = i + 1]
             ELSE /\ Goto(p, "ext_rename")
                  /\ loc' = [loc EXCEPT ![p].wr = 0, ![p].fd = NoFd]

\* Lines 538-541: move the new file over the voucher, then Ok(())
ExtendRename(p) ==
    /\ pc[p] = "ext_rename"
    /\ UNCHANGED <<out, fs0, nruns>>
    /\ \/ /\ Return(p, Err("Error moving new ownership voucher in place",
                           IF fs[newname(loc[p].path)].exists THEN "io" ELSE "not found"))
          /\ UNCHANGED <<fs, loc, origin>>
       \/ /\ fs[newname(loc[p].path)].exists
          /\ Return(p, Ok)
          /\ fs' = fs_rename(newname(loc[p].path), loc[p].path)
          /\ loc' = [q \in DOMAIN loc |->
                        [loc[q] EXCEPT !.fd = fd_after_rename(@, newname(loc[p].path),
                                                              loc[p].path)]]
          /\ UNCHANGED origin

extend_voucher(p) ==
    \/ ExtendLoadVoucher(p)
    \/ ExtendAppend(p)
    \/ ExtendCreateNew(p)
    \/ ExtendWriteNew(p)
    \/ ExtendRename(p)

---------------------------------------------------------------------------
(* dump-ownership-voucher *)

StartDumpVoucher(p) ==
    \E path \in ArgPaths :
        /\ Start(p, [NoLocals EXCEPT !.cmd = "dump-ownership-voucher",
                                     !.path = path])
        /\ pc' = [pc EXCEPT ![p] = "dumpov_load"]

\* Lines 438-450 and 454
voucher_header_report(hdr) ==
    << [text |-> "Header:"],
       [text |-> "Protocol Version", n |-> hdr.protocol_version],
       [text |-> "Device GUID", guid |-> hdr.guid],
       [text |-> "Rendezvous Info:"] >>
    \o [i \in 1..Len(hdr.rendezvous_info) |->
            [text |-> "-", rv |-> hdr.rendezvous_info[i]]]
    \o << [text |-> "Device Info", s |-> hdr.device_info],
          [text |-> "Manufacturer public key", key |-> hdr.public_key],
          [text |-> "Device certificate chain hash",
           opt |-> hdr.device_certificate_chain_hash],
          [text |-> "Entries:"] >>

\* Mutant: entries are numbered from 1
voucher_entry_report_one_based(pos, entry) ==
    << [text |-> "Entry", pos |-> pos + 1],
       [text |-> "Previous entry hash", hash |-> entry.hash_previous_entry],
       [text |-> "Header info hash", hash |-> entry.hash_header_info],
       [text |-> "Public key", key |-> entry.public_key] >>

\* Lines 458-461
voucher_entry_report(pos, entry) ==
    << [text |-> "Entry", pos |-> pos],
       [text |-> "Previous entry hash", hash |-> entry.hash_previous_entry],
       [text |-> "Header info hash", hash |-> entry.hash_header_info],
       [text |-> "Public key", key |-> entry.public_key] >>

\* Lines 426-454: open and decode the voucher, print the header
DumpVoucherLoad(p) ==
    /\ pc[p] = "dumpov_load"
    /\ UNCHANGED <<fs, fs0, origin, nruns>>
    /\ LET file == fs[loc[p].path]
           r == de_voucher(file.data) IN
       IF ~file.exists
       THEN /\ Return(p, Err("Error opening ownership voucher", "not found"))
            /\ UNCHANGED <<loc, out>>
       ELSE IF ~r.ok
       THEN /\ Return(p, Err("Error loading ownership voucher", "cbor"))
            /\ UNCHANGED <<loc, out>>
       ELSE /\ Goto(p, "dumpov_entries")
            /\ loc' = [loc EXCEPT ![p].ov = r.ov, ![p].pos = 0]
            /\ out' = [out EXCEPT ![p] = voucher_header_report(get_header(r.ov))]

\* Lines 455-464: one turn of the loop over ov.iter_entries().enumerate()
DumpVoucherEntry(p) ==
    /\ pc[p] = "dumpov_entries"
    /\ UNCHANGED <<fs, fs0, origin, nruns>>
    /\ LET pos == loc[p].pos IN
       IF pos >= Len(loc[p].ov.entries)
       THEN /\ Return(p, Ok)
            /\ UNCHANGED <<loc, out>>
       ELSE LET entry == decode_entry(loc[p].ov.entries[pos + 1]) IN
            IF ~entry.ok
            THEN /\ Return(p, [Err("Error parsing entry", "cbor") EXCEPT !.pos = pos])
                 /\ UNCHANGED <<loc, out>>
            ELSE /\ Goto(p, "dumpov_entries")
                 /\ loc' = [loc EXCEPT ![p].pos = pos + 1]
                 /\ out' = [out EXCEPT ![p] = @ \o voucher_entry_report(pos, entry.entry)]

dump_voucher(p) ==
    \/ DumpVoucherLoad(p)
    \/ DumpVoucherEntry(p)

---------------------------------------------------------------------------
(* dump-device-credential *)

StartDumpDevcred(p) ==
    \E path \in ArgPaths :
        /\ Start(p, [NoLocals EXCEPT !.cmd = "dump-device-credential",
                                     !.path = path])
        /\ pc' = [pc EXCEPT ![p] = "dumpdc"]

\* Mutant: the HMAC key is printed
devcred_report_leaking(dc) ==
    << [text |-> "Active", b |-> dc.active],
       [text |-> "Protocol Version", n |-> dc.protver],
       [text |-> "HMAC key", s |-> dc.hmac_secret],
       [text |-> "Device Info", s |-> dc.device_info],
       [text |-> "Device GUID", guid |-> dc.guid],
       [text |-> "Rendezvous Info:"] >>
    \o [i \in 1..Len(dc.rvinfo) |-> [text |-> "-", rv |-> dc.rvinfo[i]]]
    \o << [text |-> "Public key hash", hash |-> dc.pubkey_hash],
          [text |-> "Private key", s |-> "<secret>"] >>

\* Lines 476-488
devcred_report(dc) ==
    << [text |-> "Active", b |-> dc.active],
       [text |-> "Protocol Version", n |-> dc.protver],
       [text |-> "HMAC key", s |-> "<secret>"],
       [text |-> "Device Info", s |-> dc.device_info],
       [text |-> "Device GUID", guid |-> dc.guid],
       [text |-> "Rendezvous Info:"] >>
    \o [i \in 1..Len(dc.rvinfo) |-> [text |-> "-", rv |-> dc.rvinfo[i]]]
    \o << [text |-> "Public key hash", hash |-> dc.pubkey_hash],
          [text |-> "Private key", s |-> "<secret>"] >>

\* Lines 467-491
dump_devcred(p) ==
    /\ pc[p] = "dumpdc"
    /\ UNCHANGED <<fs, fs0, origin, nruns>>
    /\ LET file == fs[loc[p].path]
           r == de_devcred(file.data) IN
       IF ~file.exists
       THEN /\ Return(p, Err("Error opening device credential", "not found"))
            /\ UNCHANGED <<loc, out>>
       ELSE IF ~r.ok
       THEN /\ Return(p, Err("Error loading device credential", "cbor"))
            /\ UNCHANGED <<loc, out>>
       ELSE /\ Return(p, Ok)
            /\ loc' = [loc EXCEPT ![p].dc = r.dc]
            /\ out' = [out EXCEPT ![p] = devcred_report(r.dc)]

---------------------------------------------------------------------------
(* The system *)

\* The process dies (kill, power loss) between two steps
Crash(p) ==
    /\ pc[p] # "idle"
    /\ Return(p, Crashed)
    /\ UNCHANGED <<fs, loc, out, fs0, origin, nruns>>

Next ==
    \E p \in Procs :
        \/ StartInitializeDevice(p)
        \/ initialize_device(p)
        \/ StartExtendVoucher(p)
        \/ extend_voucher(p)
        \/ StartDumpVoucher(p)
        \/ dump_voucher(p)
        \/ StartDumpDevcred(p)
        \/ dump_devcred(p)
        \/ Crash(p)

Spec == Init /\ [][Next]_vars

---------------------------------------------------------------------------
(* Two extend-ownership-voucher processes on one voucher path *)

ConcProcs == {"p1", "p2"}

ConcPath == "a"

\* The voucher both are given: without entries, or with one
ConcVouchers ==
    {ForeignVoucher0,
     OwnershipVoucher_extend(ForeignVoucher0, [priv |-> "mfg-key"],
         PublicKey_new("SECP256R1", PublicKeyBody_X509(CaCert)))}

InitConc ==
    /\ \E v \in ConcVouchers :
          fs = [path \in Paths |-> IF path = ConcPath
                                   THEN [exists |-> TRUE, data |-> ser_voucher(v)]
                                   ELSE NoFile]
    /\ pc = [p \in ConcProcs |-> "idle"]
    /\ loc = [p \in ConcProcs |-> NoLocals]
    /\ out = [p \in ConcProcs |-> << >>]
    /\ result = [p \in ConcProcs |-> NoResult]
    /\ fs0 = fs
    /\ origin = [path \in Paths |-> None]
    /\ nruns = 0

\* Two shells start owner_tool extend-ownership-voucher on the same path,
\* each once, at any time
StartConcurrentExtend(p) ==
    /\ pc[p] = "idle"
    /\ loc[p].cmd = "none"
    /\ pc' = [pc EXCEPT ![p] = "ext_load"]
    /\ loc' = [loc EXCEPT ![p] = [NoLocals EXCEPT !.cmd = "extend-ownership-voucher",
                                                  !.path = ConcPath]]
    /\ nruns' = nruns + 1
    /\ UNCHANGED <<fs, out, result, fs0, origin>>

NextConc ==
    \E p \in ConcProcs :
        \/ StartConcurrentExtend(p)
        \/ extend_voucher(p)

SpecConc == InitConc /\ [][NextConc]_vars

---------------------------------------------------------------------------
(* Helpers of the properties *)

FileOf(data) == [exists |-> TRUE, data |-> data]

IsProperPrefix(a, b) == Len(a) < Len(b) /\ \A i \in 1..Len(a) : a[i] = b[i]

IsExtend(p) == loc[p].cmd = "extend-ownership-voucher"

IsInit(p) == loc[p].cmd = "initialize-device"

\* The extend invocation has decoded the voucher it was given
ExtendLoaded(p) == IsExtend(p) /\ loc[p].ov # None

\* The voucher at the path when the invocation began
Original(p) == de_voucher(fs0[loc[p].path].data).ov

---------------------------------------------------------------------------
(* C1: throughout an extend-voucher invocation the file at the voucher     *)
(* path is the complete original voucher, byte for byte, until the rename; *)
(* after the rename it is the complete extended voucher.  The extended     *)
(* voucher is written to '<path>.new' only, so an invocation that fails or *)
(* dies after creating the temporary file leaves the original untouched.   *)
C1_AtomicReplace ==
    \A p \in Procs :
        ExtendLoaded(p) =>
            LET path == loc[p].path IN
            IF result[p].status = "ok"
            THEN /\ fs[path] = FileOf(ser_voucher(loc[p].ov))
                 /\ loc[p].ov # Original(p)
                 /\ ~fs[newname(path)].exists
            ELSE /\ fs[path] = fs0[path]
                 /\ de_voucher(fs[path].data).ok
                 /\ \A q \in Paths \ {newname(path)} : fs[q] = fs0[q]

\* An extend failed or died with a partly written '<path>.new' on disk
C1_Witness ==
    \E p \in Procs :
        /\ ExtendLoaded(p)
        /\ result[p].status \in {"err", "crashed"}
        /\ fs[newname(loc[p].path)].exists
        /\ Len(fs[newname(loc[p].path)].data) > 0
        /\ IsProperPrefix(fs[newname(loc[p].path)].data, ser_voucher(loc[p].ov))
        /\ fs[loc[p].path] = fs0[loc[p].path]

---------------------------------------------------------------------------
(* C2: a successful extend-voucher on a voucher with n entries leaves at   *)
(* the voucher path a voucher with exactly n+1 entries whose first n are   *)
(* the entries before the call; an extend that has not succeeded leaves    *)
(* the entries as they were.                                               *)
C2_MonotonicAppend ==
    \A p \in Procs :
        ExtendLoaded(p) =>
            LET old == Original(p)
                new == de_voucher(fs[loc[p].path].data)
                n == Len(old.entries) IN
            /\ new.ok
            /\ IF result[p].status = "ok"
               THEN /\ Len(new.ov.entries) = n + 1
                    /\ \A i \in 1..n : new.ov.entries[i] = old.entries[i]
               ELSE new.ov.entries = old.entries

\* A second successful extend: entry 0 is still the first extend's entry
C2_Witness ==
    \E p \in Procs :
        /\ ExtendLoaded(p)
        /\ result[p].status = "ok"
        /\ Len(Original(p).entries) >= 1
        /\ Len(de_voucher(fs[loc[p].path].data).ov.entries) =
              Len(Original(p).entries) + 1

---------------------------------------------------------------------------
(* C3: in every voucher made by initialize-device and any number of        *)
(* extend-voucher runs, entry 0's hash_previous_entry is the hash over the *)
(* header bytes and the header HMAC, and entry i's is the hash of entry    *)
(* i-1, for 1 <= i < n.                                                    *)
ChainIntact(ov) ==
    \A i \in 1..Len(ov.entries) :
        /\ decode_entry(ov.entries[i]).ok
        /\ decode_entry(ov.entries[i]).entry.hash_previous_entry =
              IF i = 1
              THEN Hash("sha384", [header |-> ov.header, hmac |-> ov.header_hmac])
              ELSE Hash("sha384", [entrybytes |-> ov.entries[i - 1]])

C3_ChainIntegrity ==
    \A path \in Paths :
        (origin[path] # None /\ de_voucher(fs[path].data).ok) =>
            ChainIntact(de_voucher(fs[path].data).ov)

\* A voucher of this tool with two entries is on disk
C3_Witness ==
    \E path \in Paths :
        /\ origin[path] # None
        /\ de_voucher(fs[path].data).ok
        /\ Len(de_voucher(fs[path].data).ov.entries) >= 2

---------------------------------------------------------------------------
(* C4: the header bytes and the header HMAC of a voucher are the ones      *)
(* initialize-device wrote, after any number of extend-voucher runs; and   *)
(* an extend of any voucher leaves the header bytes and HMAC it found.     *)
C4_HeaderImmutable ==
    /\ \A path \in Paths :
          (origin[path] # None /\ de_voucher(fs[path].data).ok) =>
              /\ de_voucher(fs[path].data).ov.header = origin[path].ov.header
              /\ de_voucher(fs[path].data).ov.header_hmac = origin[path].ov.header_hmac
    /\ \A p \in Procs :
          ExtendLoaded(p) =>
              /\ loc[p].ov.header = Original(p).header
              /\ loc[p].ov.header_hmac = Original(p).header_hmac
              /\ de_voucher(fs[loc[p].path].data).ov.header = Original(p).header
              /\ de_voucher(fs[loc[p].path].data).ov.header_hmac = Original(p).header_hmac

\* A voucher of this tool was extended twice
C4_Witness ==
    \E p \in Procs, path \in Paths :
        /\ ExtendLoaded(p)
        /\ result[p].status = "ok"
        /\ loc[p].path = path
        /\ origin[path] # None
        /\ Len(de_voucher(fs[path].data).ov.entries) = 2

---------------------------------------------------------------------------
(* C5: the header HMAC of a voucher from a successful initialize-device    *)
(* run is the HMAC of the voucher's header bytes under the hmac_secret of  *)
(* the credential that run built and stored, also after extend-voucher     *)
(* runs on the voucher.                                                    *)
TagOf(secret, header) == HMac_new_from_data("sha384", HmacSign(secret, header))

C5_TagMatchesCredential ==
    /\ \A path \in Paths :
          (/\ origin[path] # None
           /\ origin[path].succeeded
           /\ de_voucher(fs[path].data).ok) =>
              de_voucher(fs[path].data).ov.header_hmac =
                  TagOf(origin[path].devcred.hmac_secret,
                        de_voucher(fs[path].data).ov.header)
    /\ \A p \in Procs :
          (IsInit(p) /\ result[p].status = "ok" /\ loc[p].path # loc[p].dc_path) =>
              LET v == de_voucher(fs[loc[p].path].data)
                  c == de_devcred(fs[loc[p].dc_path].data) IN
              /\ v.ok
              /\ c.ok
              /\ c.dc = origin[loc[p].path].devcred
              /\ v.ov.header_hmac = TagOf(c.dc.hmac_secret, v.ov.header)

\* A voucher of a successful run, extended since, with its credential on disk
C5_Witness ==
    \E path \in Paths, dcpath \in Paths :
        /\ origin[path] # None
        /\ origin[path].succeeded
        /\ de_voucher(fs[path].data).ok
        /\ Len(de_voucher(fs[path].data).ov.entries) >= 1
        /\ de_devcred(fs[dcpath].data).ok
        /\ de_devcred(fs[dcpath].data).dc = origin[path].devcred

---------------------------------------------------------------------------
(* C6: a successful initialize-device(identifier, ...) builds a voucher    *)
(* whose header device-info is the identifier and which has no entries,    *)
(* and a credential that is active, carries the identifier, an empty       *)
(* expected-owner digest and the GUID of the voucher header; with two      *)
(* different output paths these are what the two files hold.               *)
C6_InitializeResult ==
    \A p \in Procs :
        (IsInit(p) /\ result[p].status = "ok") =>
            LET ov == loc[p].ov
                dc == loc[p].devcred IN
            /\ get_header(ov).device_info = loc[p].device_id
            /\ Len(ov.entries) = 0
            /\ dc.active = TRUE
            /\ dc.device_info = loc[p].device_id
            /\ dc.pubkey_hash.of = EmptyBytes
            /\ dc.guid = get_header(ov).guid
            /\ loc[p].path # loc[p].dc_path =>
                  /\ de_voucher(fs[loc[p].path].data).ok
                  /\ de_voucher(fs[loc[p].path].data).ov = ov
                  /\ de_devcred(fs[loc[p].dc_path].data).ok
                  /\ de_devcred(fs[loc[p].dc_path].data).dc = dc

\* initialize-device succeeded with two different output paths
C6_Witness ==
    \E p \in Procs :
        /\ IsInit(p)
        /\ result[p].status = "ok"
        /\ loc[p].path # loc[p].dc_path
        /\ loc[p].device_id = "dev-2"

---------------------------------------------------------------------------
(* C7: when the voucher output path or the credential output path exists   *)
(* as initialize-device starts, the run never succeeds, never reaches the  *)
(* generation of the device key, certificate, HMAC key or GUID, changes no *)
(* file, and, once its input files are loaded, fails with the 'already     *)
(* exists' error of the path found (the credential path is looked at       *)
(* first).                                                                 *)
C7_ExistingOutputRejected ==
    \A p \in Procs :
        (IsInit(p) /\ (fs0[loc[p].path].exists \/ fs0[loc[p].dc_path].exists)) =>
            /\ result[p].status # "ok"
            /\ pc[p] \in {"init_load", "init_exists", "idle"}
            /\ fs = fs0
            /\ loc[p].device_key = None
            /\ loc[p].device_cert = None
            /\ loc[p].hmac_key = None
            /\ loc[p].devcred = None
            /\ loc[p].ov = None
            /\ (pc[p] = "idle" /\ result[p].status = "err"
                    /\ loc[p].rendezvous_info # None) =>
                  result[p] = IF fs0[loc[p].dc_path].exists
                              THEN Err("Device credential file already exists", "")
                              ELSE Err("Ownership voucher file already exists", "")

\* The voucher path existed (the credential path did not) and the run failed
C7_Witness ==
    \E p \in Procs :
        /\ IsInit(p)
        /\ fs0[loc[p].path].exists
        /\ ~fs0[loc[p].dc_path].exists
        /\ result[p] = Err("Ownership voucher file already exists", "")

---------------------------------------------------------------------------
(* C8: initialize-device given a rendezvous descriptor with a key outside  *)
(* the enumerated variable names, or an empty device-CA chain, ends in an  *)
(* error and creates no file.  A descriptor whose only defect is such a    *)
(* key fails with the rendezvous-key error (UnknownRendezvousVariable);    *)
(* the empty chain, once handed to certificate building, fails with the    *)
(* certificate-build error (CertificateBuildError).                        *)
UnknownKeyIn(entry) ==
    /\ entry.y = "Mapping"
    /\ \E i \in 1..Len(entry.pairs) :
          /\ entry.pairs[i][1].y = "String"
          /\ entry.pairs[i][1].s \notin RendezvousVariableNames

ContainsUnknownKey(doc) ==
    /\ doc.y = "Sequence"
    /\ \E i \in 1..Len(doc.seq) : UnknownKeyIn(doc.seq[i])

OnlyDefectUnknownKey(doc) ==
    /\ ContainsUnknownKey(doc)
    /\ \A i \in 1..Len(doc.seq) :
          /\ doc.seq[i].y = "Mapping"
          /\ \A k \in 1..Len(doc.seq[i].pairs) : doc.seq[i].pairs[k][1].y = "String"

C8_InvalidInputRejected ==
    \A p \in Procs :
        IsInit(p) =>
            /\ (loc[p].rv_doc # None /\ ContainsUnknownKey(loc[p].rv_doc)) =>
                  /\ pc[p] = "idle"
                  /\ result[p].status = "err"
                  /\ result[p].ctx = "Error loading rendezvous info"
                  /\ OnlyDefectUnknownKey(loc[p].rv_doc) =>
                        result[p].cause = "Error parsing rendezvous key"
                  /\ fs = fs0
            /\ (loc[p].chain # None /\ Len(loc[p].chain.certs) = 0) =>
                  /\ result[p].status # "ok"
                  /\ fs = fs0
                  /\ loc[p].device_key # None =>
                        /\ pc[p] = "idle"
                        /\ result[p] = Err("Error building device certificate",
                                           "Insufficient device CA certs in the chain")

\* A descriptor whose only defect is the key "bogus" was rejected
C8_Witness ==
    \E p \in Procs :
        /\ IsInit(p)
        /\ loc[p].rv_doc = UnknownKeyRvDoc
        /\ result[p] = Err("Error loading rendezvous info", "Error parsing rendezvous key")
        /\ fs = fs0

\* An empty device-CA chain was rejected by certificate building
C8_ReachedEmptyChain ==
    \E p \in Procs :
        /\ IsInit(p)
        /\ loc[p].chain # None
        /\ Len(loc[p].chain.certs) = 0
        /\ result[p].ctx = "Error building device certificate"

---------------------------------------------------------------------------
(* C9: dump-ownership-voucher prints the entries in chain order, index 0   *)
(* first, four lines each; when entry k does not decode it stops with the  *)
(* entry-parse error for k, having printed exactly the entries 0..k-1 and  *)
(* nothing of entry k or later; no file is changed.                        *)
IsDumpVoucher(p) == loc[p].cmd = "dump-ownership-voucher" /\ loc[p].ov # None

Undecodable(ov) == {i \in 0..(Len(ov.entries) - 1) : ov.entries[i + 1].enc # "cbor"}

HeaderLines(ov) == 8 + Len(ov.header.hdr.rendezvous_info)

C9_DumpFailsFast ==
    \A p \in Procs :
        IsDumpVoucher(p) =>
            LET ov == loc[p].ov
                h == HeaderLines(ov)
                k == loc[p].pos IN
            /\ fs = fs0
            /\ Len(out[p]) = h + 4 * k
            /\ \A i \in 0..(k - 1) :
                  /\ i \notin Undecodable(ov)
                  /\ out[p][h + 4 * i + 1] = [text |-> "Entry", pos |-> i]
                  /\ out[p][h + 4 * i + 2] =
                        [text |-> "Previous entry hash",
                         hash |-> ov.entries[i + 1].entry.hash_previous_entry]
                  /\ out[p][h + 4 * i + 3] =
                        [text |-> "Header info hash",
                         hash |-> ov.entries[i + 1].entry.hash_header_info]
                  /\ out[p][h + 4 * i + 4] =
                        [text |-> "Public key",
                         key |-> ov.entries[i + 1].entry.public_key]
            /\ result[p].status = "err" =>
                  /\ result[p].ctx = "Error parsing entry"
                  /\ result[p].pos = k
                  /\ k \in Undecodable(ov)
            /\ result[p].status = "ok" =>
                  /\ Undecodable(ov) = {}
                  /\ k = Len(ov.entries)

\* Entry 1 did not decode: entry 0 was printed, entry 1 was not
C9_Witness ==
    \E p \in Procs :
        /\ IsDumpVoucher(p)
        /\ result[p].status = "err"
        /\ result[p].pos = 1
        /\ Len(out[p]) = HeaderLines(loc[p].ov) + 4

---------------------------------------------------------------------------
(* C10: the report of dump-device-credential is the same for any two       *)
(* credentials that differ only in hmac_secret and private_key, and no     *)
(* line of it carries the HMAC secret or the private key.                  *)
SecretVariants == HmacKeys \cup {"hk-other"}

PrivateKeyVariants == {[der |-> k.ec] : k \in DeviceKeys} \cup {[der |-> "devkey-other"]}

C10_ReportHidesSecrets ==
    \A p \in Procs :
        (loc[p].cmd = "dump-device-credential" /\ result[p].status = "ok") =>
            /\ \A hs \in SecretVariants, pk \in PrivateKeyVariants :
                  devcred_report([loc[p].dc EXCEPT !.hmac_secret = hs,
                                                   !.private_key = pk]) = out[p]
            /\ \A i \in 1..Len(out[p]) :
                  /\ "s" \in DOMAIN out[p][i] =>
                        /\ out[p][i].s # loc[p].dc.hmac_secret
                        /\ out[p][i].s # loc[p].dc.private_key.der
                  /\ DOMAIN out[p][i] \subseteq {"text", "s", "b", "n", "guid", "rv", "hash"}
            /\ fs = fs0

\* A stored credential was dumped
C10_Witness ==
    \E p \in Procs :
        /\ loc[p].cmd = "dump-device-credential"
        /\ result[p].status = "ok"
        /\ Len(out[p]) >= 8
        /\ loc[p].dc.hmac_secret \in HmacKeys

---------------------------------------------------------------------------
(* C11: initialize-device does not roll back.  When creating the           *)
(* credential file fails after the voucher file was created, or writing    *)
(* either artifact fails, the failing step changes no file: the files      *)
(* created so far stay at their paths (the voucher file, and for a write   *)
(* failure the credential file too).  A file is only ever taken away by    *)
(* the rename of a successful extend-voucher.  So an initialize-device     *)
(* started next with the same output paths finds a path present, and an    *)
(* initialize-device that finds an output path present is rejected at the  *)
(* existence check with the 'already exists' error, changing nothing.      *)
LateFailures ==
    {"Error creating device credential file",
     "Error writing ownership voucher",
     "Error writing device credential"}

\* The last invocation was an initialize-device that failed after File::create
InitFailedLate(p) ==
    /\ IsInit(p)
    /\ pc[p] = "idle"
    /\ result[p].status = "err"
    /\ result[p].ctx \in LateFailures

AlreadyExists(p) ==
    IF fs0[loc[p].dc_path].exists
    THEN Err("Device credential file already exists", "")
    ELSE Err("Ownership voucher file already exists", "")

C11_FilesLeft ==
    \A p \in Procs :
        InitFailedLate(p) =>
            /\ fs[loc[p].path].exists
            /\ result[p].ctx # "Error creating device credential file" =>
                  fs[loc[p].dc_path].exists
            /\ \A q \in Paths \ {loc[p].path, loc[p].dc_path} : fs[q] = fs0[q]

C11_Step ==
    /\ \A p \in Procs :
          \* the failing step itself cleans nothing up
          /\ (/\ pc[p] \in {"init_create_dc", "init_write_ov", "init_write_dc"}
              /\ pc'[p] = "idle"
              /\ result'[p].status = "err") =>
                 /\ fs' = fs
                 /\ result'[p].ctx \in LateFailures
          \* the next initialize-device with the same paths finds them present
          /\ (/\ InitFailedLate(p)
              /\ pc'[p] = "init_load"
              /\ loc'[p].path = loc[p].path
              /\ loc'[p].dc_path = loc[p].dc_path) =>
                 /\ fs0'[loc'[p].path].exists
                 /\ result[p].ctx # "Error creating device credential file" =>
                       fs0'[loc'[p].dc_path].exists
          \* an initialize-device that finds an output path present is rejected
          /\ (/\ IsInit(p)
              /\ pc[p] = "init_exists"
              /\ fs0[loc[p].path].exists \/ fs0[loc[p].dc_path].exists) =>
                 /\ pc'[p] = "idle"
                 /\ result'[p].status # "ok"
                 /\ result'[p].status = "err" => result'[p] = AlreadyExists(p)
                 /\ fs' = fs
    \* only the rename of a successful extend-voucher takes a file away
    /\ \A q \in Paths :
          (fs[q].exists /\ ~fs'[q].exists) =>
              \E p \in Procs :
                  /\ pc[p] = "ext_rename"
                  /\ q = newname(loc[p].path)
                  /\ result'[p].status = "ok"

C11_NoRollback == [](C11_FilesLeft) /\ [][C11_Step]_vars

\* Writing the voucher failed part way: the partial voucher file and the
\* empty credential file are left on disk
C11_Witness ==
    \E p \in Procs :
        /\ InitFailedLate(p)
        /\ result[p].ctx = "Error writing ownership voucher"
        /\ loc[p].path # loc[p].dc_path
        /\ Len(fs[loc[p].path].data) > 0
        /\ IsProperPrefix(fs[loc[p].path].data, ser_voucher(loc[p].ov))
        /\ fs[loc[p].dc_path] = EmptyFile

\* A later initialize-device was rejected on the partial voucher file that
\* an earlier run left at its voucher output path
C11_ReachedRejection ==
    \E p \in Procs :
        /\ IsInit(p)
        /\ result[p] = Err("Ownership voucher file already exists", "")
        /\ fs0[loc[p].path].exists
        /\ fs0[loc[p].path].data = << >>
        /\ ~fs0[loc[p].dc_path].exists

---------------------------------------------------------------------------
(* C12: for any interleaving of the steps of two extend-voucher processes  *)
(* on the same voucher path, the file at the voucher path is at all times  *)
(* a complete voucher (never a partially written one), and once both have  *)
(* returned Ok it is a voucher whose entries are the original entries      *)
(* followed by two more, one appended by each process.                     *)
BothSucceeded ==
    \A p \in ConcProcs : pc[p] = "idle" /\ result[p].status = "ok"

\* The entry at position i (from 1) is the one process p appended
AppendedBy(p, ov, i) ==
    /\ decode_entry(ov.entries[i]).ok
    /\ decode_entry(ov.entries[i]).entry.public_key =
          PublicKey_new("SECP256R1", PublicKeyBody_X509(loc[p].cert))

C12_ConcurrentExtends ==
    LET v == de_voucher(fs[ConcPath].data)
        old == de_voucher(fs0[ConcPath].data).ov
        n == Len(old.entries) IN
    /\ fs[ConcPath].exists
    /\ v.ok
    /\ BothSucceeded =>
          /\ Len(v.ov.entries) = n + 2
          /\ \A i \in 1..n : v.ov.entries[i] = old.entries[i]
          /\ \E p, q \in ConcProcs :
                /\ p # q
                /\ AppendedBy(p, v.ov, n + 1)
                /\ AppendedBy(q, v.ov, n + 2)

\* Both processes returned Ok and the voucher has one new entry, not two:
\* each extended the voucher it had loaded, and the second rename replaced
\* the first one's result
C12_ReachedLostUpdate ==
    /\ BothSucceeded
    /\ de_voucher(fs[ConcPath].data).ok
    /\ Len(de_voucher(fs[ConcPath].data).ov.entries) =
          Len(de_voucher(fs0[ConcPath].data).ov.entries) + 1

\* One process has moved '<path>.new' in place after the other's
\* File::create had truncated it: the voucher path holds a file that does
\* not decode, and the other process is writing into it
C12_ReachedPartialInPlace ==
    \E p, q \in ConcProcs :
        /\ result[p].status = "ok"
        /\ pc[q] = "ext_write"
        /\ loc[q].fd = ConcPath
        /\ ~de_voucher(fs[ConcPath].data).ok

\* Both processes have ended and what is left at the voucher path does not
\* decode as a voucher
C12_ReachedCorruptAtEnd ==
    /\ \A p \in ConcProcs : pc[p] = "idle" /\ result[p].status # "none"
    /\ ~de_voucher(fs[ConcPath].data).ok

=============================================================================
